---- MODULE Spec2Model ----
(***************************************************************************)
(* Model of crawler.py: an asyncio crawler.  One orchestrator coroutine    *)
(* (crawl) and `Parallelism` consumer tasks share the module-level sets    *)
(* visited_urls / urls_to_visit, one asyncio.Queue and one networkx        *)
(* DiGraph.  asyncio runs one task at a time and switches tasks only at an *)
(* await that really suspends: queue.get() on an empty queue, the network  *)
(* fetch, and queue.join().  `running` is the task that holds the event    *)
(* loop; code between two suspension points runs with `running` fixed.     *)
(***************************************************************************)
EXTENDS Integers, Sequences, FiniteSets, TLC

\* ---------------------------------------------------------------- bounds
Parallelism == 2      \* number of consumer tasks (args.parallelism)
MaxLinks == 2         \* longest list of <a> tags a fetched page holds
SeqMaxDepth == 3      \* largest --max-depth of a run with a single consumer

\* the default of --max-depth; a run is started with a max_depth up to it
MaxDepthDefault == 2

Workers == 1..Parallelism

\* `running` is the set of tasks that hold the event loop: one task, or none
\* when every task is suspended
NoTask == {}
Task(w) == {w}

\* ------------------------------------------------------------------ urls
\* A url string is modelled by the parts urlparse() splits it into.
Url(s, n, p) == [scheme |-> s, netloc |-> n, path |-> p]

\* link.get("href") of an <a> tag that has no href attribute
None == Url("None", "", "")

Root == Url("http", "a.test", "/")
RelB == Url("", "", "/b")
PageC == Url("https", "a.test", "/c")
Ext == Url("http", "other.test", "/x")
Mail == Url("mailto", "", "x@y")

PageD == Url("http", "a.test", "/d")

\* the href values the pages of the modelled site hold
Hrefs == {Root, RelB, PageC, Ext, Mail, None}

\* the href values of the larger site that a single consumer crawls
SeqHrefs == {RelB, PageC, PageD}

\* args.start_url
StartUrls == {Root}

\* urlparse(url).netloc; urlparse(None).netloc is the bytes b'', not ""
get_domain(url) == IF url = None THEN "b''" ELSE url.netloc

is_relative_url(url) == get_domain(url) = ""

\* mutant: the domain check lets every url through
has_valid_domain_any(url, allowed) == TRUE

has_valid_domain(url, allowed) == get_domain(url) \in allowed

\* urljoin(base, rel): a reference with a scheme stands as it is; an
\* absolute-path reference takes the scheme and host of the base.
urljoin(base, rel) ==
    IF rel.scheme # "" THEN rel
    ELSE Url(base.scheme, base.netloc, rel.path)

\* mutant: the regex lets every string through
re_match_any(s) == TRUE

\* every url string the run can meet: the start url and the hrefs, the
\* relative ones joined to each page that can hold them ("/b" gives
\* http://a.test/b on an http page and https://a.test/b on an https page)
Urls ==
    LET hrefs == Hrefs \cup SeqHrefs
        pages == StartUrls \cup {h \in hrefs : get_domain(h) \notin {"", get_domain(None)}}
    IN pages \cup {urljoin(b, h) : b \in pages, h \in hrefs \ {None}}

\* re.match(url_regex, s) with the default "(http://.*|https://.*)"
re_match(s) == s.scheme \in {"http", "https"}

\* ----------------------------------------------------------------- links
Link(d, u) == [depth |-> d, url |-> u]
NoLink == Link(-1, None)

\* the exceptions that can leave consume and end the consumer task
Raised == {"ClientError", "TypeError", "KeyError"}

\* ----------------------------------------------------------------- state
VARIABLES
    visited_urls,     \* module-level set
    urls_to_visit,    \* module-level set
    queue,            \* asyncio.Queue: its deque of Links
    unfinished,       \* asyncio.Queue._unfinished_tasks
    nodes,            \* graph: node url -> depth attribute
    edges,            \* graph: set of <<source url, target url>>
    start_url,        \* crawl() parameters
    max_depth,
    allowed_domains,
    crawl_pc,         \* the orchestrator: "init", "joining", "done"
    pc,               \* each consumer: "idle", "fetching", "loop", "finish",
                      \*   "cancelled", or the exception that ended the task
    link,             \* each consumer's dequeued Link
    next_links,       \* each consumer's number of candidates not yet looped over
    running,          \* the tasks that hold the event loop: Task(w) or NoTask
    produced,         \* history: url -> number of produce() calls
    fetched,          \* history: url -> number of fetch_links() calls
    first_depth,      \* history: url -> depth of its first add_node
    discovered,       \* history: <<parent, child>> pairs that passed the regex
    turn              \* history: whether each consumer's latest turn of the
                      \*   loop met "again" a pair already discovered or
                      \*   "skipped" a candidate the regex rejects, else "none"

graph == <<nodes, edges>>
frontier == <<visited_urls, urls_to_visit>>
params == <<start_url, max_depth, allowed_domains>>
locals == <<link, next_links>>
history == <<produced, fetched, first_depth, discovered, turn>>
vars == <<visited_urls, urls_to_visit, queue, unfinished, nodes, edges,
          start_url, max_depth, allowed_domains, crawl_pc, pc, link,
          next_links, running, produced, fetched, first_depth, discovered,
          turn>>

is_url_to_visit(url) == url \in urls_to_visit

is_url_visited(url) == url \in visited_urls

\* graph.add_node(url, depth=d): creates the node or updates its attribute
add_node(g, l) == (l.url :> l.depth) @@ g

\* mutant: the edge is added from the child to the parent
add_edge_reversed(e, l, nl) == e \cup {<<nl.url, l.url>>}

\* graph.add_edge(u, v) of a DiGraph: parallel edges collapse
add_edge(e, l, nl) == e \cup {<<l.url, nl.url>>}

\* mutant: the guard without `not is_url_to_visit`
should_produce_unless_visited(url) ==
    /\ has_valid_domain(url, allowed_domains)
    /\ ~is_url_visited(url)

\* mutant: the guard without `not is_url_visited`
should_produce_unless_to_visit(url) ==
    /\ has_valid_domain(url, allowed_domains)
    /\ ~is_url_to_visit(url)

\* the guard of lines 96-98
should_produce(url) ==
    /\ has_valid_domain(url, allowed_domains)
    /\ ~is_url_visited(url)
    /\ ~is_url_to_visit(url)

\* mutant: the depth test lets a Link at max_depth through
below_max_depth_or_at(l) == l.depth <= max_depth

\* line 84
below_max_depth(l) == l.depth < max_depth

\* mutant: the url is left in urls_to_visit
to_visit_kept(S, url) == S

\* line 101: urls_to_visit.remove(url), for a url that is in the set
to_visit_remove(S, url) == S \ {url}

\* mutant: task_done() is not called
task_done_skipped(n) == n

\* line 103: queue.task_done()
task_done(n) == n - 1

\* mutant: a LifoQueue, whose get() returns the newest item
queue_put_lifo(q, l) == <<l>> \o q

\* line 70: queue.put(link) of a FIFO asyncio.Queue
queue_put(q, l) == Append(q, l)

RecordFirst(fd, l) == IF l.url \in DOMAIN fd THEN fd ELSE (l.url :> l.depth) @@ fd

Bump(f, u) == [f EXCEPT ![u] = @ + 1]

Init ==
    /\ visited_urls = {}
    /\ urls_to_visit = {}
    /\ queue = <<>>
    /\ unfinished = 0
    /\ nodes = <<>>
    /\ edges = {}
    /\ start_url = None
    /\ max_depth = 0
    /\ allowed_domains = {}
    /\ crawl_pc = "init"
    /\ pc = [w \in Workers |-> "idle"]
    /\ link = [w \in Workers |-> NoLink]
    /\ next_links = [w \in Workers |-> 0]
    /\ running = NoTask
    /\ produced = [u \in Urls |-> 0]
    /\ fetched = [u \in Urls |-> 0]
    /\ first_depth = <<>>
    /\ discovered = {}
    /\ turn = [w \in Workers |-> "none"]

\* ---------------------------------------------------------- orchestrator
\* crawl_main + crawl up to `await queue.join()`: the consumer tasks are
\* created, the start Link is produced without any check, join suspends.
CrawlStart(s, d) ==
    /\ crawl_pc = "init"
    /\ running = NoTask
    /\ start_url' = s
    /\ max_depth' = d
    /\ allowed_domains' = {get_domain(s)}
    /\ urls_to_visit' = urls_to_visit \cup {s}
    /\ queue' = queue_put(queue, Link(0, s))
    /\ unfinished' = unfinished + 1
    /\ produced' = Bump(produced, s)
    /\ crawl_pc' = "joining"
    /\ UNCHANGED <<visited_urls, graph, pc, locals, running, fetched,
                   first_depth, discovered, turn>>

\* mutant: the consumers are cancelled without waiting for join()
JoinReturn_no_wait ==
    /\ crawl_pc = "joining"
    /\ running = NoTask
    /\ crawl_pc' = "done"
    /\ pc' = [w \in Workers |-> IF pc[w] \in Raised THEN pc[w] ELSE "cancelled"]
    /\ UNCHANGED <<frontier, queue, unfinished, graph, params, locals,
                   running, history>>

\* join() returns once _unfinished_tasks is 0; every consumer is cancelled.
\* cancel() of a task that already ended with an exception does nothing.
JoinReturn ==
    /\ crawl_pc = "joining"
    /\ running = NoTask
    /\ unfinished = 0
    /\ crawl_pc' = "done"
    /\ pc' = [w \in Workers |-> IF pc[w] \in Raised THEN pc[w] ELSE "cancelled"]
    /\ UNCHANGED <<frontier, queue, unfinished, graph, params, locals,
                   running, history>>

\* -------------------------------------------------------------- consumer
\* lines 78-85: queue.get() returns a Link, its node is recorded, and the
\* consumer either suspends in fetch_links or goes straight to line 101.
Dequeue(w) ==
    /\ pc[w] = "idle"
    /\ running \in {NoTask, Task(w)}
    /\ queue # <<>>
    /\ LET l == Head(queue) IN
        /\ queue' = Tail(queue)
        /\ link' = [link EXCEPT ![w] = l]
        /\ nodes' = add_node(nodes, l)
        /\ first_depth' = RecordFirst(first_depth, l)
        /\ IF below_max_depth(l)
           THEN /\ pc' = [pc EXCEPT ![w] = "fetching"]
                /\ running' = NoTask
                /\ fetched' = Bump(fetched, l.url)
           ELSE /\ pc' = [pc EXCEPT ![w] = "finish"]
                /\ running' = Task(w)
                /\ fetched' = fetched
    /\ UNCHANGED <<frontier, unfinished, edges, params, crawl_pc,
                   next_links, produced, discovered, turn>>

\* lines 50-51: a relative href is joined to the url of the page
Resolve(url, href) ==
    IF is_relative_url(href) THEN urljoin(url, href) ELSE href

\* fetch_links returns the links of a page that holds n <a> tags.  The list
\* is local to the consumer and is read only by the loop of lines 87-99,
\* which no other task interleaves with, so each href is drawn when the
\* loop reaches it and next_links keeps the number still to come.
FetchReturn(w, n) ==
    /\ pc[w] = "fetching"
    /\ running = NoTask
    /\ next_links' = [next_links EXCEPT ![w] = n]
    /\ pc' = [pc EXCEPT ![w] = IF n = 0 THEN "finish" ELSE "loop"]
    /\ running' = Task(w)
    /\ UNCHANGED <<frontier, queue, unfinished, graph, params, crawl_pc,
                   link, history>>

\* session.get / response.text raises (network error, timeout): nothing in
\* consume catches it, so the exception ends the consumer task.
FetchFail(w) ==
    /\ pc[w] = "fetching"
    /\ running = NoTask
    /\ pc' = [pc EXCEPT ![w] = "ClientError"]
    /\ UNCHANGED <<frontier, queue, unfinished, graph, params, crawl_pc,
                   locals, running, history>>

\* mutant: produce without line 69, the url is not added to urls_to_visit
Produce_unclaimed(l) ==
    /\ urls_to_visit' = urls_to_visit
    /\ queue' = queue_put(queue, l)
    /\ unfinished' = unfinished + 1
    /\ produced' = Bump(produced, l.url)

\* lines 68-70 called from line 99; put() on an unbounded queue never waits
Produce(l) ==
    /\ urls_to_visit' = urls_to_visit \cup {l.url}
    /\ queue' = queue_put(queue, l)
    /\ unfinished' = unfinished + 1
    /\ produced' = Bump(produced, l.url)

\* lines 87-99: one turn of the loop, over the candidate made from href
LoopStep(w, href) ==
    /\ pc[w] = "loop"
    /\ running = Task(w)
    /\ LET next_link == Resolve(link[w].url, href)
           rest == next_links[w] - 1
           next_link_obj == Link(link[w].depth + 1, next_link)
       IN
        IF next_link = None
        THEN \* re.match(url_regex, None) raises TypeError
             /\ pc' = [pc EXCEPT ![w] = "TypeError"]
             /\ running' = NoTask
             /\ turn' = [turn EXCEPT ![w] = "none"]
             /\ UNCHANGED <<frontier, queue, unfinished, graph, next_links,
                            produced, fetched, first_depth, discovered>>
        ELSE /\ next_links' = [next_links EXCEPT ![w] = rest]
             /\ pc' = [pc EXCEPT ![w] = IF rest = 0 THEN "finish" ELSE "loop"]
             /\ running' = Task(w)
             /\ IF ~re_match(next_link)
                THEN /\ turn' = [turn EXCEPT ![w] = "skipped"]
                     /\ UNCHANGED <<frontier, queue, unfinished, graph,
                                    produced, fetched, first_depth, discovered>>
                ELSE /\ nodes' = add_node(nodes, next_link_obj)
                     /\ turn' = [turn EXCEPT ![w] =
                           IF <<link[w].url, next_link>> \in discovered
                           THEN "again" ELSE "none"]
                     /\ edges' = add_edge(edges, link[w], next_link_obj)
                     /\ first_depth' = RecordFirst(first_depth, next_link_obj)
                     /\ discovered' = discovered \cup {<<link[w].url, next_link>>}
                     /\ IF should_produce(next_link)
                        THEN Produce(next_link_obj)
                        ELSE UNCHANGED <<urls_to_visit, queue, unfinished,
                                         produced>>
                     /\ UNCHANGED <<visited_urls, fetched>>
    /\ UNCHANGED <<params, crawl_pc, link>>

\* lines 101-103, then back to `await queue.get()`, which suspends only
\* when the queue is empty.  set.remove raises KeyError on a missing url.
Finish(w) ==
    /\ pc[w] = "finish"
    /\ running = Task(w)
    /\ IF link[w].url \notin urls_to_visit
       THEN /\ pc' = [pc EXCEPT ![w] = "KeyError"]
            /\ running' = NoTask
            /\ UNCHANGED <<frontier, unfinished, link, turn>>
       ELSE /\ urls_to_visit' = to_visit_remove(urls_to_visit, link[w].url)
            /\ visited_urls' = visited_urls \cup {link[w].url}
            /\ unfinished' = task_done(unfinished)
            /\ pc' = [pc EXCEPT ![w] = "idle"]
            /\ link' = [link EXCEPT ![w] = NoLink]
            /\ running' = IF queue # <<>> THEN Task(w) ELSE NoTask
            /\ turn' = [turn EXCEPT ![w] = "none"]
    /\ UNCHANGED <<queue, graph, params, crawl_pc, next_links, produced,
                   fetched, first_depth, discovered>>

Orchestrator ==
    \/ \E s \in StartUrls, d \in 0..MaxDepthDefault : CrawlStart(s, d)
    \/ JoinReturn

Fetch(w) ==
    \/ \E n \in 0..MaxLinks : FetchReturn(w, n)
    \/ FetchFail(w)

Worker(w) ==
    \/ Dequeue(w)
    \/ Fetch(w)
    \/ \E href \in Hrefs : LoopStep(w, href)
    \/ Finish(w)

Next ==
    \/ Orchestrator
    \/ \E w \in Workers : Worker(w)

Spec == Init /\ [][Next]_vars

\* The event loop runs every ready task and every fetch ends (it returns or
\* raises, at the latest by its 2 s ClientTimeout).
FairSpec ==
    /\ Spec
    /\ WF_vars(Orchestrator)
    /\ \A w \in Workers : WF_vars(Worker(w))

\* A run with --parallelism 1: consumer 1 is the only consumer task.  With
\* no second task to interleave with, a larger site and a deeper crawl stay
\* small enough to explore.
OrchestratorSeq ==
    \/ \E s \in StartUrls, d \in 0..SeqMaxDepth : CrawlStart(s, d)
    \/ JoinReturn

WorkerSeq ==
    \/ Dequeue(1)
    \/ Fetch(1)
    \/ \E href \in SeqHrefs : LoopStep(1, href)
    \/ Finish(1)

NextSeq ==
    \/ OrchestratorSeq
    \/ WorkerSeq

SpecSeq == Init /\ [][NextSeq]_vars

\* ------------------------------------------------------------ properties
Started == crawl_pc # "init"

\* the Links waiting in the queue or held by a consumer that works on one
QueuedLinks == {queue[i] : i \in 1..Len(queue)}
Holding(w) == pc[w] \in {"fetching", "loop", "finish"}
HeldLinks == {link[w] : w \in {v \in Workers : Holding(v)}}
Parents(u) == {e[1] : e \in {d \in discovered : d[2] = u}}
NoTypeError == \A w \in Workers : pc[w] # "TypeError"
\* no fetch has raised and no page has given an href that is not a string
FetcherWellBehaved == \A w \in Workers : pc[w] \notin {"ClientError", "TypeError"}
Terminated == crawl_pc = "done" /\ \A w \in Workers : pc[w] = "cancelled"

\* C1: when the Fetcher raises for a dequeued Link, the consumer goes on as
\* if the page had no links: every fetch, failed or not, is followed by the
\* rest of the item's processing (the loop, then lines 101-103, where the url
\* moves to visited and the item is marked done); the task does not end.
C1_FetchFailureAbsorbed ==
    [][\A w \in Workers :
          (pc[w] = "fetching" /\ pc'[w] # "fetching") => pc'[w] \in {"loop", "finish"}]_vars

\* C2: a Fetcher failure never stops the crawl: under fair scheduling join()
\* eventually returns (stated for runs whose pages all give well-formed
\* hrefs, so that the only failures are the Fetcher's).
C2_CrawlCompletesDespiteFailures ==
    []NoTypeError => <>(crawl_pc = "done")

\* C3: a url is produced to the queue at most once and fetched at most once,
\* no two Links in the queue or in the consumers' hands carry the same url,
\* and the graph holds its node and one edge from every discovering parent.
C3_ClaimedAtMostOnce ==
    /\ \A u \in Urls : produced[u] <= 1 /\ fetched[u] <= 1
    /\ \A i, j \in 1..Len(queue) : queue[i].url = queue[j].url => i = j
    /\ \A v, w \in Workers :
          (Holding(v) /\ Holding(w) /\ link[v].url = link[w].url) => v = w
    /\ \A l \in QueuedLinks : \A h \in HeldLinks : l.url # h.url
    /\ \A d \in discovered : d[2] \in DOMAIN nodes
    /\ edges = discovered

\* a url found from two different parents, produced and fetched once
C3_Witness ==
    \E u \in Urls :
        /\ Cardinality(Parents(u) \ {u}) >= 2
        /\ produced[u] = 1
        /\ fetched[u] = 1

\* C4: every url that enters urls_to_visit (the start url included) is
\* eventually dequeued and moved to visited_urls (stated for runs whose pages
\* all give well-formed hrefs).
C4_EveryClaimedUrlVisited ==
    []NoTypeError => \A u \in Urls : (u \in urls_to_visit) ~> (u \in visited_urls)

\* C5: once the start Link is produced, the outstanding count is zero only
\* when the queue is empty, urls_to_visit is empty and no consumer is working
\* on an item; and from such a state nothing is produced any more.
C5_Quiescent ==
    (Started /\ unfinished = 0) =>
        /\ queue = <<>>
        /\ urls_to_visit = {}
        /\ \A w \in Workers : pc[w] \in {"idle", "cancelled"}
C5_TerminationSound ==
    /\ []C5_Quiescent
    /\ [][(Started /\ unfinished = 0) =>
            (unfinished' = 0 /\ queue' = queue /\ produced' = produced)]_vars

\* join() is about to return after a crawl that followed links
C5_Witness ==
    /\ crawl_pc = "joining"
    /\ unfinished = 0
    /\ Cardinality(visited_urls) >= 2

\* C6: urls_to_visit and visited_urls are disjoint in every state.
C6_Disjoint == urls_to_visit \cap visited_urls = {}

\* a visited url found again from another page while urls wait to be visited
C6_Witness ==
    /\ urls_to_visit # {}
    /\ \E d \in discovered :
          d[1] # d[2] /\ d[2] = start_url /\ d[2] \in visited_urls

\* C7: a node's depth attribute is the depth of the first add_node for it.
C7_FirstDepthWins ==
    \A u \in DOMAIN nodes : nodes[u] = first_depth[u]

\* C8: no node's depth attribute exceeds max_depth and no Link deeper than
\* max_depth is in the queue or in a consumer's hands.
C8_DepthBounded ==
    /\ \A u \in DOMAIN nodes : nodes[u] <= max_depth
    /\ \A l \in QueuedLinks \cup HeldLinks : l.depth <= max_depth

\* a Link at depth max_depth > 0 has been dequeued and its node recorded
C8_Witness ==
    /\ max_depth > 0
    /\ \E w \in Workers :
          /\ pc[w] = "finish"
          /\ link[w].depth = max_depth
          /\ nodes[link[w].url] = max_depth

C10_OutOfScopeRecordedOnly ==
    Started =>
        \A u \in Urls :
            (re_match(u) /\ get_domain(u) \notin allowed_domains) =>
                /\ u \notin urls_to_visit \cup visited_urls
                /\ produced[u] = 0
                /\ fetched[u] = 0
                /\ \A l \in QueuedLinks \cup HeldLinks : l.url # u
                /\ \A p \in Parents(u) : u \in DOMAIN nodes /\ <<p, u>> \in edges

\* the external page was found and recorded while the crawl went on
C10_Witness ==
    /\ <<Root, Ext>> \in edges
    /\ Ext \in DOMAIN nodes
    /\ visited_urls # {}

\* C11: in the graph of a completed crawl every node other than the start
\* url has an incoming edge from a visited url that was fetched.
C11_NoOrphanNodes ==
    crawl_pc = "done" =>
        \A u \in DOMAIN nodes \ {start_url} :
            \E p \in visited_urls : <<p, u>> \in edges /\ fetched[p] = 1

\* a crawl completed with nodes that were never crawled themselves
C11_Witness ==
    /\ crawl_pc = "done"
    /\ Cardinality(DOMAIN nodes) >= 3
    /\ Ext \in DOMAIN nodes

\* C12: a Link dequeued at depth max_depth is terminal: it is never fetched
\* or looped over, dequeuing it only records its node, and the step that
\* follows only moves its url to visited and marks the item done.  With
\* max_depth = 0 nothing is fetched and the graph never holds more than the
\* start node (exactly that node, and no edge, when the crawl is done).
C12_AtMaxDepth(w) == Holding(w) /\ link[w].depth = max_depth
C12_TerminalState ==
    /\ \A w \in Workers : C12_AtMaxDepth(w) => pc[w] = "finish"
    /\ (Started /\ max_depth = 0) =>
          /\ \A u \in Urls : fetched[u] = 0
          /\ edges = {}
          /\ DOMAIN nodes \subseteq {start_url}
          /\ crawl_pc = "done" => DOMAIN nodes = {start_url}
C12_TerminalAtMaxDepth ==
    /\ []C12_TerminalState
    /\ [][\A w \in Workers :
            /\ (~Holding(w) /\ C12_AtMaxDepth(w)') =>
                  /\ nodes' = (link'[w].url :> link'[w].depth) @@ nodes
                  /\ UNCHANGED <<edges, frontier, unfinished, produced, fetched>>
            /\ (C12_AtMaxDepth(w) /\ pc'[w] # pc[w]) =>
                  /\ pc'[w] = "idle"
                  /\ visited_urls' = visited_urls \cup {link[w].url}
                  /\ urls_to_visit' = urls_to_visit \ {link[w].url}
                  /\ unfinished' = unfinished - 1
                  /\ UNCHANGED <<graph, queue, produced, fetched>>]_vars

\* a crawl with max_depth = 0 has completed with the start node alone
C12_Witness ==
    /\ crawl_pc = "done"
    /\ max_depth = 0
    /\ DOMAIN nodes = {start_url}
    /\ visited_urls = {start_url}

\* a consumer takes a turn of the loop of lines 87-99
LoopTurn(w) == pc[w] = "loop" /\ next_links'[w] < next_links[w]

\* C14: recording the same discovery twice changes nothing: a turn of the
\* loop over a candidate this page has already listed leaves the graph's
\* nodes and edges, urls_to_visit, visited_urls and the queue as they were.
C14_RelistingIdempotent ==
    [][\A w \in Workers :
          (LoopTurn(w) /\ turn'[w] = "again") =>
              UNCHANGED <<nodes, edges, urls_to_visit, visited_urls, queue,
                          unfinished>>]_vars

\* a page has listed the same url a second time
C14_Witness ==
    \E w \in Workers : turn[w] = "again" /\ pc[w] \in {"loop", "finish"}

\* C15: when the orchestrator cancels the consumers each of them is
\* suspended at queue.get() with no Link in hand, and after the crawl no
\* produced Link is left unvisited or not marked done.
C15_CancelledOnlyWhenIdle ==
    /\ [][(crawl_pc = "joining" /\ crawl_pc' = "done") =>
            \A w \in Workers : pc[w] = "idle" /\ link[w] = NoLink]_vars
    /\ [](crawl_pc = "done" =>
            /\ unfinished = 0
            /\ urls_to_visit = {}
            /\ \A u \in Urls : produced[u] >= 1 => u \in visited_urls)

\* the consumers were cancelled after pages beyond the start were fetched
C15_Witness ==
    /\ \A w \in Workers : pc[w] = "cancelled"
    /\ \E u \in Urls : u # start_url /\ fetched[u] = 1

\* C16: the removal of line 101 never fails: a consumer that reaches it
\* holds a url that is in urls_to_visit, and no task ends with KeyError.
C16_RemoveNeverFails ==
    \A w \in Workers :
        /\ pc[w] # "KeyError"
        /\ Holding(w) => link[w].url \in urls_to_visit

\* a consumer is about to move a discovered url from to-visit to visited
C16_Witness ==
    \E w \in Workers :
        /\ pc[w] = "finish"
        /\ link[w].depth >= 1
        /\ link[w].url \in urls_to_visit

\* C17: a url in visited_urls stays there and is never put into
\* urls_to_visit again.
C17_VisitedIsFinal ==
    [][/\ visited_urls \subseteq visited_urls'
       /\ urls_to_visit' \cap visited_urls = {}]_vars

\* a visited url was listed again by a page that was fetched after it
C17_Witness ==
    \E d \in discovered :
        /\ d[1] # d[2]
        /\ d[2] # start_url
        /\ d[1] # start_url
        /\ {d[1], d[2]} \subseteq visited_urls

\* C18: a candidate string that does not match the pattern has no effect:
\* no url other than the start enters the graph, the sets or the queue
\* without matching, and the turn of the loop that rejects a candidate
\* changes nothing; a turn that accepts one records its node at the depth
\* of the parent plus one, with the edge, and queues it at that depth or not
\* at all.
C18_MatchesPattern(u) == u.scheme \in {"http", "https"}
C18_OnlyMatching ==
    \A u \in Urls \ {start_url} :
        ~C18_MatchesPattern(u) =>
            /\ u \notin DOMAIN nodes
            /\ \A e \in edges : e[2] # u
            /\ u \notin urls_to_visit \cup visited_urls
            /\ produced[u] = 0
C18_RejectedHasNoEffect ==
    /\ []C18_OnlyMatching
    /\ [][\A w \in Workers :
            LoopTurn(w) =>
                IF turn'[w] = "skipped"
                THEN UNCHANGED <<graph, frontier, queue, unfinished, produced,
                                 fetched, first_depth, discovered>>
                ELSE \E u \in Urls :
                        /\ C18_MatchesPattern(u)
                        /\ nodes' = (u :> (link[w].depth + 1)) @@ nodes
                        /\ edges' = edges \cup {<<link[w].url, u>>}
                        /\ \/ queue' = queue
                           \/ queue' = Append(queue, Link(link[w].depth + 1, u))]_vars

\* a page has listed a candidate the pattern rejects
C18_Witness ==
    \E w \in Workers : turn[w] = "skipped" /\ pc[w] \in {"loop", "finish"}

\* C19: whenever every task is suspended, urls_to_visit is exactly the urls
\* of the Links in the queue and of the Links consumers are working on,
\* those Links have distinct urls, and the outstanding count is the size of
\* urls_to_visit.
C19_FrontierMatchesQueue ==
    running = NoTask =>
        /\ urls_to_visit = {l.url : l \in QueuedLinks \cup HeldLinks}
        /\ Cardinality(QueuedLinks \cup HeldLinks) = Cardinality(urls_to_visit)
        /\ Len(queue) = Cardinality(QueuedLinks)
        /\ unfinished = Cardinality(urls_to_visit)

\* The site as the run has read it: the urls that the pages in S link to
\* through followed links, which are the pairs that passed the pattern and
\* whose target is in an allowed domain.
Followed(S) ==
    {d[2] : d \in {e \in discovered : e[1] \in S /\ get_domain(e[2]) \in allowed_domains}}

\* the urls within k hops of the start url along followed links
RECURSIVE Within(_)
Within(k) ==
    IF k <= 0 THEN {start_url}
    ELSE UNION {near \cup Followed(near) : near \in {Within(k - 1)}}

\* the urls within k hops, for every k up to max_depth
Hops == [k \in 0..max_depth |-> Within(k)]

\* k is the shortest hop distance of u from the start url, hops being Hops
AtHops(hops, u, k) ==
    /\ k \in DOMAIN hops
    /\ u \in hops[k]
    /\ k = 0 \/ u \notin hops[k - 1]

\* the pages a breadth-first traversal that stops at max_depth reads
WithinFetchDepth == IF max_depth = 0 THEN {} ELSE Within(max_depth - 1)

\* C13: with one consumer the visited set of a complete run is a function of
\* the start url, the allowed domains, the pattern, max_depth and what the
\* Fetcher returns: it is the set of urls within max_depth hops of the start
\* along the followed links of the pages within max_depth - 1 hops, and the
\* run has fetched these pages and no other, each once.  Two complete runs
\* with the same parameters and a Fetcher that returns the same links for
\* the same page therefore end with the same visited set.
C13_VisitedDetermined ==
    crawl_pc = "done" =>
        /\ visited_urls = Within(max_depth)
        /\ {u \in Urls : fetched[u] >= 1} = WithinFetchDepth
        /\ \A u \in Urls : fetched[u] <= 1

\* a complete run that visited five pages, the farthest three hops away
\* and not fetched
C13_Witness ==
    /\ crawl_pc = "done"
    /\ Cardinality(visited_urls) >= 5
    /\ \E u \in visited_urls : first_depth[u] = 3 /\ fetched[u] = 0

\* C20: with one consumer the crawl is breadth-first: the queue holds its
\* Links in non-decreasing depth order behind the Link being worked on and
\* behind every visited url, so Links are dequeued in non-decreasing depth
\* order; the depth of every Link is the shortest hop distance of its url
\* from the start along followed links; only urls within max_depth - 1 hops
\* are fetched and, when the crawl is complete, all of them were.
C20_BreadthFirst ==
    Started =>
        \A links \in {QueuedLinks \cup HeldLinks}, hops \in {Hops} :
        /\ \A i \in 1..(Len(queue) - 1) : queue[i].depth <= queue[i + 1].depth
        /\ \A l \in HeldLinks, q \in QueuedLinks : l.depth <= q.depth
        /\ visited_urls \subseteq DOMAIN first_depth
        /\ \A l \in links :
              l.url \in DOMAIN first_depth => first_depth[l.url] = l.depth
        /\ \A u \in visited_urls, l \in links : first_depth[u] <= l.depth
        /\ \A l \in links : AtHops(hops, l.url, l.depth)
        /\ \A u \in visited_urls : AtHops(hops, u, first_depth[u])
        /\ \A u \in Urls : fetched[u] >= 1 => u \in WithinFetchDepth
        /\ crawl_pc = "done" => \A u \in WithinFetchDepth : fetched[u] = 1

\* a complete run in which a fetched page two hops from the start is also
\* linked from a page that is itself two hops from the start
C20_Witness ==
    /\ crawl_pc = "done"
    /\ \E d \in discovered, e \in discovered :
          /\ d[2] = e[2]
          /\ first_depth[d[1]] = 1
          /\ first_depth[e[1]] = 2
          /\ first_depth[d[2]] = 2
          /\ fetched[d[2]] = 1

====
